---- MODULE Spec2Model ----
(***************************************************************************)
(* Model of the CSV -> JSON -> Postgres pipeline of csv-to-json-api        *)
(* (utils/csvParser.js, kept in src/README.md from line 161 on).           *)
(*                                                                         *)
(* Strings are sequences of one-character strings.  JavaScript values are  *)
(* tagged records: t = "s" a string (in s), t = "o" a plain object (its    *)
(* own properties in the function m, keyed by strings), t = "u" undefined. *)
(***************************************************************************)
EXTENDS Integers, Sequences, FiniteSets, TLC

VARIABLES
    tk,             \* splitCSVLine: line, i, field, fields, inQuotes, pc, out
    ps,             \* parseCSV: data, lines, headers, records, last row built
    filePath,       \* process.env.CSV_FILE_PATH is set
    fileState,      \* the file system at filePath: "absent", "present", "unreadable"
    fileText,       \* the text of the file at filePath
    pc,             \* uploadToDB: position of the async function
    headers,        \* uploadToDB: headers
    records,        \* uploadToDB: records
    skipped,        \* uploadToDB: skipped
    insertedCount,  \* uploadToDB: insertedCount
    lineIndex,      \* uploadToDB: lineIndex
    query,          \* the pool.query call in flight (its parameters), or NoQuery
    users,          \* the rows of table users, in insertion order
    queries,        \* every INSERT the pool was offered, in order, with its outcome
    outcome,        \* what uploadToDB returned or threw
    rp              \* printAgeDistribution: rows read, groups, percents, pc

vars == <<tk, ps, filePath, fileState, fileText, pc, headers, records, skipped,
          insertedCount, lineIndex, query, users, queries, outcome, rp>>

-----------------------------------------------------------------------------
(* Bounds of the model *)

MaxLineLen == 5
MaxRows == 3
MaxStored == 40

-----------------------------------------------------------------------------
(* Characters and strings *)

DQ == "\""
COMMA == ","
DOT == "."
SP == " "
LF == "\n"
CR == "\r"

SeqsUpTo(S, n) == UNION {[1..k -> S] : k \in 0..n}

\* White space as String.prototype.trim sees it, over the characters used here.
IsSpace(ch) == ch \in {SP, LF, CR, "\t"}

RECURSIVE TrimLeft(_)
TrimLeft(s) ==
    IF s # <<>> /\ IsSpace(Head(s)) THEN TrimLeft(Tail(s)) ELSE s

RECURSIVE TrimRight(_)
TrimRight(s) ==
    IF s # <<>> /\ IsSpace(s[Len(s)]) THEN TrimRight(SubSeq(s, 1, Len(s) - 1)) ELSE s

\* String.prototype.trim
Trim(s) == TrimLeft(TrimRight(s))

MapTrim(ss) == [k \in 1..Len(ss) |-> Trim(ss[k])]

-----------------------------------------------------------------------------
(* splitCSVLine *)

\* The scanner's state on entry: i is 1-based here (line[i] is JavaScript's line[i-1]).
ScanInit(line) ==
    [line |-> line, i |-> 1, field |-> <<>>, fields |-> <<>>, inQuotes |-> FALSE,
     pc |-> "scan", out |-> <<>>]

\* ScanStep with the quote state ignored at a comma (every comma ends the field).
ScanStepSplitsInQuotes(st) ==
    LET ch == st.line[st.i] IN
    IF ch = DQ
    THEN IF st.inQuotes /\ st.i + 1 <= Len(st.line) /\ st.line[st.i + 1] = DQ
         THEN [st EXCEPT !.field = Append(@, DQ), !.i = @ + 2]
         ELSE [st EXCEPT !.inQuotes = ~@, !.i = @ + 1]
    ELSE IF ch = COMMA
         THEN [st EXCEPT !.fields = Append(@, st.field), !.field = <<>>, !.i = @ + 1]
         ELSE [st EXCEPT !.field = Append(@, ch), !.i = @ + 1]

\* One pass of the for loop's body, with the loop's i++.
ScanStep(st) ==
    LET ch == st.line[st.i] IN
    IF ch = DQ
    THEN IF st.inQuotes /\ st.i + 1 <= Len(st.line) /\ st.line[st.i + 1] = DQ
         THEN [st EXCEPT !.field = Append(@, DQ), !.i = @ + 2]
         ELSE [st EXCEPT !.inQuotes = ~@, !.i = @ + 1]
    ELSE IF ch = COMMA /\ ~st.inQuotes
         THEN [st EXCEPT !.fields = Append(@, st.field), !.field = <<>>, !.i = @ + 1]
         ELSE [st EXCEPT !.field = Append(@, ch), !.i = @ + 1]

\* After the loop: push the last field, trim every field.
ScanFinish(st) ==
    [st EXCEPT !.fields = Append(@, st.field),
               !.out = MapTrim(Append(st.fields, st.field)),
               !.pc = "done"]

\* At most n passes of the loop's body from st on, none once i is past the end of
\* the line; the passes are run half by half.
RECURSIVE ScanRun(_, _)
ScanRun(st, n) ==
    IF st.i > Len(st.line) \/ n = 0 THEN st
    ELSE IF n = 1 THEN ScanStep(st)
    ELSE ScanRun(ScanRun(st, n \div 2), n - (n \div 2))

\* The whole loop (every pass moves i on by one at least), then the code after it.
ScanAll(st) == ScanFinish(ScanRun(st, Len(st.line)))

splitCSVLine(line) == ScanAll(ScanInit(line)).out

-----------------------------------------------------------------------------
(* JavaScript values *)

Str(s) == [t |-> "s", s |-> s, m |-> <<>>]
Obj(m) == [t |-> "o", s |-> <<>>, m |-> m]
Undef == [t |-> "u", s |-> <<>>, m |-> <<>>]
EmptyObj == Obj(<<>>)

\* typeof v === 'object' (no value here is null)
IsObj(v) == v.t = "o"

\* v[key]: an own property of an object; undefined otherwise (no key used here
\* names a property of String.prototype or Object.prototype).
GetProp(v, key) == IF v.t = "o" /\ key \in DOMAIN v.m THEN v.m[key] ELSE Undef

\* o[key] = v on an object
PutProp(o, key, v) ==
    Obj([x \in (DOMAIN o.m) \cup {key} |-> IF x = key THEN v ELSE o.m[x]])

\* the object without the properties in keys (the rest of a destructuring)
OmitProps(o, keys) == Obj([x \in (DOMAIN o.m) \ keys |-> o.m[x]])

\* v ?? d
Coalesce(v, d) == IF v.t = "u" THEN d ELSE v

\* !v for a string, an object or undefined
Falsy(v) == v.t = "u" \/ (v.t = "s" /\ v.s = <<>>)

ObjectObject ==
    <<"[", "o", "b", "j", "e", "c", "t", SP, "O", "b", "j", "e", "c", "t", "]">>

\* String(v)
ToStr(v) ==
    IF v.t = "s" THEN v.s
    ELSE IF v.t = "o" THEN ObjectObject
    ELSE <<"u", "n", "d", "e", "f", "i", "n", "e", "d">>

-----------------------------------------------------------------------------
(* String.prototype.split, replace *)

FirstIdx(s, ch) ==
    IF \E j \in 1..Len(s) : s[j] = ch
    THEN CHOOSE j \in 1..Len(s) : s[j] = ch /\ \A k \in 1..(j - 1) : s[k] # ch
    ELSE 0

\* s.split(sep) for a one-character separator: never empty, '' gives ['']
RECURSIVE SplitOn(_, _)
SplitOn(s, sep) ==
    LET j == FirstIdx(s, sep) IN
    IF j = 0 THEN <<s>>
    ELSE <<SubSeq(s, 1, j - 1)>> \o SplitOn(SubSeq(s, j + 1, Len(s)), sep)

\* s.replace(/\r\n/g, '\n'): every match is a CR with an LF next to it, and no two
\* matches overlap, so the result is s without the CRs that an LF follows.
ReplaceCRLF(s) ==
    LET KeptAt(k) == ~(s[k] = CR /\ k < Len(s) /\ s[k + 1] = LF)
        kept == SelectSeq([k \in 1..Len(s) |-> k], KeptAt)
    IN  [j \in 1..Len(kept) |-> s[kept[j]]]

\* s.replace(/\r/g, '\n')
ReplaceCR(s) == [k \in 1..Len(s) |-> IF s[k] = CR THEN LF ELSE s[k]]

\* s.replace(/["{}]/g, '')
StripPunct(s) ==
    LET Stays(ch) == ch \notin {DQ, "{", "}"} IN SelectSeq(s, Stays)

-----------------------------------------------------------------------------
(* JSON.stringify of a string or a plain object *)

\* a backslash before every quote and backslash: each character with the place
\* before it, which holds a backslash or nothing
JsonEscape(s) ==
    LET slots == [j \in 1..(2 * Len(s)) |->
                     IF j % 2 = 0 THEN s[j \div 2]
                     ELSE IF s[(j + 1) \div 2] \in {DQ, "\\"} THEN "\\" ELSE ""]
        Filled(ch) == ch # ""
    IN  SelectSeq(slots, Filled)

JsonString(s) == <<DQ>> \o JsonEscape(s) \o <<DQ>>

\* The members are written in some fixed order of the keys; nothing read from the
\* text here depends on the order.
RECURSIVE Stringify(_)
RECURSIVE StringifyMembers(_, _)
StringifyMembers(o, keys) ==
    IF keys = {} THEN <<>>
    ELSE LET k == CHOOSE x \in keys : TRUE
             rest == keys \ {k}
         IN  JsonString(k) \o <<":">> \o Stringify(o.m[k])
             \o (IF rest = {} THEN <<>> ELSE <<COMMA>> \o StringifyMembers(o, rest))

Stringify(v) ==
    IF v.t = "s" THEN JsonString(v.s)
    ELSE <<"{">> \o StringifyMembers(v, DOMAIN v.m) \o <<"}">>

-----------------------------------------------------------------------------
(* setNestedProperty *)

\* The forEach over keys, from the node `current` on; the nodes are rebuilt on the
\* way back where the code mutates them in place (no node is shared).
RECURSIVE SetPath(_, _, _)
SetPath(current, keys, value) ==
    IF Len(keys) = 1 THEN PutProp(current, keys[1], value)
    ELSE LET old == GetProp(current, keys[1])
             node == IF Falsy(old) \/ ~IsObj(old) THEN EmptyObj ELSE old
         IN  PutProp(current, keys[1], SetPath(node, Tail(keys), value))

setNestedProperty(obj, keyPath, value) == SetPath(obj, SplitOn(keyPath, DOT), value)

-----------------------------------------------------------------------------
(* parseCSV *)

DigitChars == <<"0", "1", "2", "3", "4", "5", "6", "7", "8", "9">>

\* String(n) for n >= 0
RECURSIVE NatToStr(_)
NatToStr(n) ==
    IF n < 10 THEN <<DigitChars[n + 1]>>
    ELSE Append(NatToStr(n \div 10), DigitChars[(n % 10) + 1])

kExtras == <<"_", "_", "e", "x", "t", "r", "a", "s">>

\* `_extra_${n}`
ExtraKey(n) == <<"_", "e", "x", "t", "r", "a", "_">> \o NatToStr(n)

\* !data || !data.trim()
IsBlank(s) == Len(Trim(s)) = 0

\* rawLines.filter(l => l.trim().length > 0)
FilterNonBlank(ss) ==
    LET F[k \in 0..Len(ss)] ==
            IF k = 0 THEN <<>>
            ELSE IF Len(Trim(ss[k])) > 0 THEN Append(F[k - 1], ss[k]) ELSE F[k - 1]
    IN  F[Len(ss)]

\* the lines that are not blank, of the text with its newlines normalised
NonBlankLines(data) == FilterNonBlank(SplitOn(ReplaceCR(ReplaceCRLF(data)), LF))

\* while (fields.length < headers.length) fields.push('')
PadFields(fields, n) ==
    IF Len(fields) < n THEN fields \o [k \in 1..(n - Len(fields)) |-> <<>>] ELSE fields

\* headers.forEach((key, idx) => setNestedProperty(row, key, fields[idx] ?? ''))
SetHeaderFields(hdrs, fields) ==
    LET F[k \in 0..Len(hdrs)] ==
            IF k = 0 THEN EmptyObj
            ELSE setNestedProperty(F[k - 1], hdrs[k],
                                   IF k <= Len(fields) THEN Str(fields[k]) ELSE Str(<<>>))
    IN  F[Len(hdrs)]

\* extra = { _extra_1: fields[n], _extra_2: fields[n + 1], ... }
ExtraFields(hdrs, fields) ==
    LET n == Len(hdrs)
        F[j \in 0..(Len(fields) - n)] ==
            IF j = 0 THEN EmptyObj ELSE PutProp(F[j - 1], ExtraKey(j), Str(fields[n + j]))
    IN  F[Len(fields) - n]

\* if (fields.length > headers.length) ... row.__extras = extra
AttachExtras(row, hdrs, fields) ==
    IF Len(fields) > Len(hdrs) /\ DOMAIN ExtraFields(hdrs, fields).m # {}
    THEN PutProp(row, kExtras, ExtraFields(hdrs, fields))
    ELSE row

\* Object.values(row).some(...)
anyNonEmpty(row) ==
    \E k \in DOMAIN row.m :
        LET val == row.m[k] IN
        IF val.t = "u" THEN FALSE
        ELSE IF IsObj(val) THEN Len(Trim(StripPunct(Stringify(val)))) > 0
             ELSE Len(Trim(ToStr(val))) > 0

\* One pass of the loop over the data lines: the fields, the row before and after
\* __extras is attached, and whether the row is kept.
BuildRow(hdrs, raw) ==
    LET split == splitCSVLine(raw)
        fields == PadFields(split, Len(hdrs))
        base == SetHeaderFields(hdrs, fields)
        row == AttachExtras(base, hdrs, fields)
    IN  [raw |-> raw, fields |-> fields, base |-> base, row |-> row,
         kept |-> anyNonEmpty(row)]

NoRow == [raw |-> <<>>, fields |-> <<>>, base |-> EmptyObj, row |-> EmptyObj, kept |-> FALSE]

\* parseCSV up to the loop: the early returns, or the header and the data lines
ParseStart(data) ==
    IF IsBlank(data) \/ NonBlankLines(data) = <<>>
    THEN [pc |-> "done", data |-> data, lines |-> <<>>, headers |-> <<>>, records |-> <<>>,
          n |-> 1, last |-> NoRow]
    ELSE [pc |-> "rows", data |-> data, lines |-> Tail(NonBlankLines(data)),
          headers |-> MapTrim(splitCSVLine(Head(NonBlankLines(data)))), records |-> <<>>,
          n |-> 1, last |-> NoRow]

\* for (const raw of lines) { ... if (anyNonEmpty) records.push(row) }
ParseLine(st) ==
    LET b == BuildRow(st.headers, st.lines[st.n]) IN
    [st EXCEPT !.records = IF b.kept THEN Append(@, b.row) ELSE @,
               !.n = @ + 1,
               !.last = b]

ParseReturn(st) == [st EXCEPT !.pc = "done"]

RECURSIVE ParseAll(_)
ParseAll(st) ==
    IF st.pc = "done" THEN st
    ELSE IF st.n <= Len(st.lines) THEN ParseAll(ParseLine(st))
         ELSE ParseReturn(st)

parseCSV(data) ==
    LET st == ParseAll(ParseStart(data)) IN [headers |-> st.headers, records |-> st.records]

-----------------------------------------------------------------------------
(* States in which a component is not running *)

IdleTk == [ScanInit(<<>>) EXCEPT !.pc = "idle"]
IdlePs == [ParseStart(<<>>) EXCEPT !.pc = "idle"]
\* the keys of groups: '<20', '20-40', '40-60', '>60'
Labels == {"<20", "20-40", "40-60", ">60"}

IdleRp == [pc |-> "idle", rows |-> <<>>, total |-> 0,
           groups |-> [g \in Labels |-> 0],
           percents |-> [g \in Labels |-> 0],
           printed |-> FALSE]
NoQuery == [name |-> <<>>, age |-> 0, address |-> EmptyObj, additional |-> EmptyObj]
NoOutcome == [kind |-> "none", error |-> "", insertedCount |-> 0, skipped |-> <<>>,
              totalRows |-> 0]

UploadIdle ==
    /\ filePath = FALSE /\ fileState = "absent" /\ fileText = <<>>
    /\ pc = "idle" /\ headers = <<>> /\ records = <<>> /\ skipped = <<>>
    /\ insertedCount = 0 /\ lineIndex = 1 /\ query = NoQuery
    /\ users = <<>> /\ queries = <<>> /\ outcome = NoOutcome

upVars == <<filePath, fileState, fileText, pc, headers, records, skipped,
            insertedCount, lineIndex, query, users, queries, outcome>>

Join(ss, sep) ==
    LET F[k \in 0..Len(ss)] ==
            IF k = 0 THEN <<>>
            ELSE IF k = 1 THEN ss[1]
            ELSE F[k - 1] \o sep \o ss[k]
    IN  F[Len(ss)]

\* sequences of 1..n distinct elements of S
DistinctSeqs(S, n) ==
    {q \in UNION {[1..k -> S] : k \in 1..n} : \A x, y \in 1..Len(q) : x # y => q[x] # q[y]}

-----------------------------------------------------------------------------
(* Specification SpecTok: splitCSVLine run on every line over TokChars *)

TokChars == {"a", COMMA, DQ, SP}

\* "A, ""B""",C  (the quoted field with a comma and an escaped quote)
QuotedExampleLine ==
    <<DQ, "A", COMMA, SP, DQ, DQ, "B", DQ, DQ, DQ, COMMA, "C">>

\* the lines of at most n characters, and the example
TokLines(n) == SeqsUpTo(TokChars, n) \cup {QuotedExampleLine}

InitTok ==
    /\ tk \in {ScanInit(l) : l \in TokLines(MaxLineLen)}
    /\ ps = IdlePs /\ rp = IdleRp /\ UploadIdle

TokStep ==
    /\ tk.pc = "scan" /\ tk.i <= Len(tk.line)
    /\ tk' = ScanStep(tk)
    /\ UNCHANGED <<ps, rp, upVars>>

TokFinish ==
    /\ tk.pc = "scan" /\ tk.i > Len(tk.line)
    /\ tk' = ScanFinish(tk)
    /\ UNCHANGED <<ps, rp, upVars>>

NextTok == TokStep \/ TokFinish

SpecTok == InitTok /\ [][NextTok]_vars

(* Claim C6 *)

\* The quote state in which the scan reaches position k of the line, told from the
\* line alone: a quote met inside quotes and followed by a quote is a pair and is
\* passed over with the state kept; any other quote flips the state.
RECURSIVE QuotedOnReaching(_, _, _, _)
QuotedOnReaching(line, p, inq, k) ==
    IF p >= k THEN inq
    ELSE IF line[p] = DQ
         THEN IF inq /\ p + 1 <= Len(line) /\ line[p + 1] = DQ
              THEN QuotedOnReaching(line, p + 2, inq, k)
              ELSE QuotedOnReaching(line, p + 1, ~inq, k)
         ELSE QuotedOnReaching(line, p + 1, inq, k)

CommasOutsideQuotes(line) ==
    {k \in 1..Len(line) : line[k] = COMMA /\ ~QuotedOnReaching(line, 1, FALSE, k)}

Spaces(n) == [k \in 1..n |-> SP]

\* f is raw with nothing but white space taken off its two ends
TrimmedOf(f, raw) ==
    /\ f = <<>> \/ (~IsSpace(f[1]) /\ ~IsSpace(f[Len(f)]))
    /\ \E a, b \in 0..Len(raw) : raw = Spaces(a) \o f \o Spaces(b)

C6_ScanRule ==
    (tk.pc = "scan" /\ tk.i <= Len(tk.line) /\ tk' # tk) =>
        LET ch == tk.line[tk.i]
            pair == tk.inQuotes /\ tk.i + 1 <= Len(tk.line) /\ tk.line[tk.i + 1] = DQ
            ended == tk'.fields = Append(tk.fields, tk.field) /\ tk'.field = <<>>
        IN  /\ ended <=> (ch = COMMA /\ ~tk.inQuotes)
            /\ ~ended => tk'.fields = tk.fields
            /\ (ch = DQ /\ pair) =>
                   /\ tk'.field = Append(tk.field, DQ)
                   /\ tk'.inQuotes = tk.inQuotes
                   /\ tk'.i = tk.i + 2
            /\ (ch = DQ /\ ~pair) =>
                   /\ tk'.inQuotes = ~tk.inQuotes
                   /\ tk'.field = tk.field
                   /\ tk'.i = tk.i + 1
            /\ ch # DQ => tk'.inQuotes = tk.inQuotes /\ tk'.i = tk.i + 1
            /\ (ch = COMMA /\ tk.inQuotes) => tk'.field = Append(tk.field, COMMA)

C6_FinishRule ==
    (tk.pc = "scan" /\ tk.i > Len(tk.line) /\ tk' # tk) =>
        /\ tk'.pc = "done"
        /\ tk'.fields = Append(tk.fields, tk.field)

C6_Result ==
    tk.pc = "done" =>
        /\ Len(tk.out) = 1 + Cardinality(CommasOutsideQuotes(tk.line))
        /\ Len(tk.out) = Len(tk.fields)
        /\ \A k \in 1..Len(tk.out) : TrimmedOf(tk.out[k], tk.fields[k])

\* C6: splitCSVLine ends a field at a comma exactly when the scan is outside quotes
\* there; a pair of quotes inside a quoted field appends one quote and keeps the
\* state; any other quote flips the state and emits nothing; the last buffer is
\* always pushed (also with a quote left open); so the fields returned number one
\* more than the commas outside quotes, each of them trimmed.
C6_QuoteStateTracking ==
    /\ [][C6_ScanRule /\ C6_FinishRule]_vars
    /\ [](C6_Result)
    /\ [](tk.pc = "scan" /\ tk.i > Len(tk.line) => ENABLED TokFinish)

\* C6 witness: the example line "A, ""B""",C is split into A, "B" and C, having met
\* a comma inside quotes, an escaped pair and a comma outside quotes.
C6_Witness ==
    /\ tk.pc = "done"
    /\ tk.line = QuotedExampleLine
    /\ tk.out = << <<"A", COMMA, SP, DQ, "B", DQ>>, <<"C">> >>

-----------------------------------------------------------------------------
(* Specification SpecParse: parseCSV run on texts of a header line and data lines *)

MaxHeaderKeys == 2
MaxFields == 3

kA == <<"a">>
kB == <<"b">>

\* dot-path header keys: plain, nested, one a prefix path of another, and __extras
HeaderKeys ==
    {kA, kB, kA \o <<DOT>> \o kB, kB \o <<DOT>> \o kA, kExtras, kExtras \o <<DOT>> \o kA}

\* the header lines of 1..n distinct keys
HeaderLines(n) == {Join(h, <<COMMA>>) : h \in DistinctSeqs(HeaderKeys, n)}

\* the text of one field of a data line: empty, plain, padded, quoted with a comma
FieldTexts == {<<>>, <<"x">>, <<SP, "y">>, <<DQ, "x", COMMA, "y", DQ>>}

\* the data lines of 1..n fields
DataLines(n) ==
    {Join(f, <<COMMA>>) : f \in UNION {[1..k -> FieldTexts] : k \in 1..n}}

ParseTexts(nk, nf) ==
    {hl \o eol \o dl \o tail :
        hl \in HeaderLines(nk), eol \in {<<LF>>, <<CR, LF>>}, dl \in DataLines(nf),
        tail \in {<<>>, <<LF>>}}
    \cup {Join(<<kA, kB>>, <<COMMA>>) \o <<LF>> \o d1 \o <<CR>> \o d2 :
            d1 \in DataLines(nf), d2 \in DataLines(nf)}
    \cup {<<>>, <<SP>>, <<LF, SP, LF>>, kA}

InitParse ==
    /\ ps \in {[IdlePs EXCEPT !.pc = "start", !.data = d] : d \in ParseTexts(MaxHeaderKeys, MaxFields)}
    /\ tk = IdleTk /\ rp = IdleRp /\ UploadIdle

PsBegin ==
    /\ ps.pc = "start"
    /\ ps' = ParseStart(ps.data)
    /\ UNCHANGED <<tk, rp, upVars>>

PsLine ==
    /\ ps.pc = "rows" /\ ps.n <= Len(ps.lines)
    /\ ps' = ParseLine(ps)
    /\ UNCHANGED <<tk, rp, upVars>>

PsReturn ==
    /\ ps.pc = "rows" /\ ps.n > Len(ps.lines)
    /\ ps' = ParseReturn(ps)
    /\ UNCHANGED <<tk, rp, upVars>>

NextParse == PsBegin \/ PsLine \/ PsReturn

SpecParse == InitParse /\ [][NextParse]_vars

\* The value read back from a record along a path of keys.
RECURSIVE GetPath(_, _)
GetPath(v, keys) ==
    IF keys = <<>> THEN v ELSE GetPath(GetProp(v, keys[1]), Tail(keys))

\* A data line has been through the loop's body: ps.last holds what was built.
RowBuilt == ps.pc \in {"rows", "done"} /\ ps.n > 1

\* The trimmed field the line holds at position k ('' past its end).
OriginalField(raw, k) ==
    IF k <= Len(splitCSVLine(raw)) THEN splitCSVLine(raw)[k] ELSE <<>>

\* No leaf below v, through every nested node, holds anything but white space.
RECURSIVE AllLeavesBlank(_)
AllLeavesBlank(v) ==
    IF v.t = "s" THEN Len(Trim(v.s)) = 0
    ELSE \A k \in DOMAIN v.m : AllLeavesBlank(v.m[k])

\* C4: for every header of distinct dot-path keys (also one where a key is a prefix
\* path of another) and every data row, the record read back at each header path
\* gives the trimmed field at that position ('' where the row was too short).
C4_RoundTrip ==
    RowBuilt =>
        \A k \in 1..Len(ps.headers) :
            GetPath(ps.last.row, SplitOn(ps.headers[k], DOT))
                = Str(OriginalField(ps.last.raw, k))

\* C5: a built record none of whose leaves, taken through nested nodes and
\* __extras, holds non-white-space content is discarded, whatever the header.
C5_AllEmptyDiscarded ==
    (RowBuilt /\ AllLeavesBlank(ps.last.row)) =>
        /\ ~ps.last.kept
        /\ \A k \in 1..Len(ps.records) : ps.records[k] # ps.last.row

\* C9: for every header and every data row with more fields than header keys, each
\* surplus field is in the record under __extras as _extra_1, _extra_2, ... by its
\* position past the header, none dropped or overwritten, and attaching them loses
\* no value the header keys address.
C9_OverflowPreserved ==
    (RowBuilt /\ Len(splitCSVLine(ps.last.raw)) > Len(ps.headers)) =>
        LET n == Len(ps.headers)
            surplus == Len(splitCSVLine(ps.last.raw)) - n
        IN  /\ \A j \in 1..surplus :
                   GetPath(ps.last.row, <<kExtras, ExtraKey(j)>>)
                       = Str(splitCSVLine(ps.last.raw)[n + j])
            /\ DOMAIN GetProp(ps.last.row, kExtras).m = {ExtraKey(j) : j \in 1..surplus}
            /\ \A k \in 1..n :
                   GetPath(ps.last.row, SplitOn(ps.headers[k], DOT))
                       = GetPath(ps.last.base, SplitOn(ps.headers[k], DOT))

-----------------------------------------------------------------------------
(* parseInt and the validation of uploadToDB *)

HexDigits == <<"0", "1", "2", "3", "4", "5", "6", "7", "8", "9",
               "a", "b", "c", "d", "e", "f">>
UpperHex == <<"0", "1", "2", "3", "4", "5", "6", "7", "8", "9",
              "A", "B", "C", "D", "E", "F">>

\* the value of ch as a digit of radix r, or -1
DigitVal(ch, r) ==
    IF \E d \in 1..r : HexDigits[d] = ch \/ UpperHex[d] = ch
    THEN (CHOOSE d \in 1..r : HexDigits[d] = ch \/ UpperHex[d] = ch) - 1
    ELSE -1

\* the value of the longest prefix of s made of radix-r digits; NaN when it is empty
RECURSIVE DigitsValue(_, _, _, _)
DigitsValue(s, r, acc, seen) ==
    IF s # <<>> /\ DigitVal(Head(s), r) >= 0
    THEN DigitsValue(Tail(s), r, acc * r + DigitVal(Head(s), r), TRUE)
    ELSE [nan |-> ~seen, val |-> acc]

\* parseInt(s) with no radix argument: leading white space, a sign, then a 0x or 0X
\* prefix selects radix 16, else radix 10.
parseInt(s) ==
    LET t == TrimLeft(s)
        neg == t # <<>> /\ t[1] = "-"
        u == IF t # <<>> /\ t[1] \in {"+", "-"} THEN Tail(t) ELSE t
        hex == Len(u) >= 2 /\ u[1] = "0" /\ u[2] \in {"x", "X"}
        z == IF hex THEN DigitsValue(SubSeq(u, 3, Len(u)), 16, 0, FALSE)
             ELSE DigitsValue(u, 10, 0, FALSE)
    IN  [nan |-> z.nan, val |-> IF neg THEN 0 - z.val ELSE z.val]

kName == <<"n", "a", "m", "e">>
kFirstName == <<"f", "i", "r", "s", "t", "N", "a", "m", "e">>
kLastName == <<"l", "a", "s", "t", "N", "a", "m", "e">>
kAge == <<"a", "g", "e">>
kAddress == <<"a", "d", "d", "r", "e", "s", "s">>

\* rec?.name?.firstName ?? ''
FirstNameOf(rec) == Coalesce(GetProp(GetProp(rec, kName), kFirstName), Str(<<>>))
\* rec?.name?.lastName ?? ''
LastNameOf(rec) == Coalesce(GetProp(GetProp(rec, kName), kLastName), Str(<<>>))
\* rec?.age ?? ''
AgeRawOf(rec) == Coalesce(GetProp(rec, kAge), Str(<<>>))

\* !firstName || !lastName
MissingName(rec) == Falsy(FirstNameOf(rec)) \/ Falsy(LastNameOf(rec))

\* parseInt(String(ageRaw).trim())
AgeOf(rec) == parseInt(Trim(ToStr(AgeRawOf(rec))))

MissingNameReason ==
    [text |-> "Missing name.firstName or name.lastName", arg |-> <<>>]
\* `Invalid age: "${ageRaw}"`
InvalidAgeReason(rec) ==
    [text |-> "Invalid age: ", arg |-> <<DQ>> \o ToStr(AgeRawOf(rec)) \o <<DQ>>]
\* `DB insert error: ${err.message}`
InsertErrorReason(msg) == [text |-> "DB insert error: ", arg |-> msg]

\* `${String(firstName).trim()} ${String(lastName).trim()}`
NameOf(rec) ==
    Trim(ToStr(FirstNameOf(rec))) \o <<SP>> \o Trim(ToStr(LastNameOf(rec)))

\* const { name: _n, age: _a, address = {}, ...rest } = rec: rest with address left
\* in it (only name and age taken out).
RestKeepingAddress(rec) == OmitProps(rec, {kName, kAge})

\* const { name: _n, age: _a, address = {}, ...rest } = rec: the rest
RestOf(rec) == OmitProps(rec, {kName, kAge, kAddress})

\* ... address = {} ...; addressObj = typeof address === 'object' ? address : {}
AddressObjOf(rec) ==
    LET address == Coalesce(GetProp(rec, kAddress), EmptyObj) IN
    IF IsObj(address) THEN address ELSE EmptyObj

\* the parameters of the INSERT: [name, age, addressObj, rest]
InsertParams(rec) ==
    [name |-> NameOf(rec), age |-> AgeOf(rec).val, address |-> AddressObjOf(rec),
     additional |-> RestOf(rec)]

ZeroSummary(total) ==
    [kind |-> "returned", error |-> "", insertedCount |-> 0, skipped |-> <<>>,
     totalRows |-> total]

ConfigError == "CSV_FILE_PATH not set in .env"
\* what fs.readFileSync throws (ENOENT, EACCES, EISDIR)
ReadError == "readFileSync failed"

Thrown(err) ==
    [kind |-> "threw", error |-> err, insertedCount |-> 0, skipped |-> <<>>,
     totalRows |-> 0]

-----------------------------------------------------------------------------
(* Specification Spec: one run of uploadToDB over a file, a store that may refuse
   any INSERT, and a file system that may lose the file *)

F_R == <<"R">>
F_P == <<"P">>
F_Pu == <<"P", "u">>

Path(a, b) == a \o <<DOT>> \o b

\* name.firstName,name.lastName,age,address.city
HeaderNested ==
    Join(<<Path(kName, kFirstName), Path(kName, kLastName), kAge,
           Path(kAddress, <<"c", "i", "t", "y">>)>>, <<COMMA>>)
\* name.firstName,name.lastName,age,address,gender
HeaderFlatAddress ==
    Join(<<Path(kName, kFirstName), Path(kName, kLastName), kAge, kAddress,
           <<"g", "e", "n", "d", "e", "r">>>>, <<COMMA>>)
\* name,age
HeaderFlatName == Join(<<kName, kAge>>, <<COMMA>>)

UpHeaderLines == {HeaderNested, HeaderFlatAddress, HeaderFlatName}

UpRowLines ==
    { Join(<<F_R, F_P, <<"3", "5">>, F_Pu>>, <<COMMA>>),            \* R,P,35,Pu
      Join(<<<<>>, F_P, <<"3", "5">>, F_Pu>>, <<COMMA>>),           \* ,P,35,Pu
      Join(<<F_R, F_P, <<"a", "b">>, F_Pu>>, <<COMMA>>),            \* R,P,ab,Pu
      Join(<<<<>>, F_P, <<"a", "b">>>>, <<COMMA>>),                 \* ,P,ab
      Join(<<F_R, F_P, <<"0", "x">>, F_Pu>>, <<COMMA>>),            \* R,P,0x,Pu
      Join(<<F_R, F_P, <<"-", "5">>, <<>>, <<"M">>, <<"z">>>>, <<COMMA>>),  \* R,P,-5,,M,z
      Join(<<F_R, F_P, <<SP, "7", "y", SP>>, F_Pu>>, <<COMMA>>) }   \* R,P, 7y ,Pu

\* a header line and up to n data lines; the empty file
UploadTexts(n) ==
    {Join(<<h>> \o rows, <<LF>>) : h \in UpHeaderLines, rows \in SeqsUpTo(UpRowLines, n)}
    \cup {<<>>}

\* err.message of a failed INSERT
Messages == {<<"d", "o", "w", "n">>}

Init ==
    /\ tk = IdleTk /\ ps = IdlePs /\ rp = IdleRp
    /\ filePath \in BOOLEAN
    /\ fileState \in IF filePath THEN {"absent", "present", "unreadable"} ELSE {"absent"}
    /\ fileText \in IF fileState = "present" THEN UploadTexts(MaxRows) ELSE {<<>>}
    /\ pc = "idle" /\ headers = <<>> /\ records = <<>> /\ skipped = <<>>
    /\ insertedCount = 0 /\ lineIndex = 1 /\ query = NoQuery
    /\ users = <<>> /\ queries = <<>> /\ outcome = NoOutcome

\* The call, up to fs.existsSync.
Begin ==
    /\ pc = "idle"
    /\ IF ~filePath
       THEN pc' = "threw" /\ outcome' = Thrown(ConfigError)
       ELSE IF fileState = "absent"
            THEN pc' = "returned" /\ outcome' = ZeroSummary(0)
            ELSE pc' = "read" /\ outcome' = outcome
    /\ UNCHANGED <<tk, ps, rp, filePath, fileState, fileText, headers, records, skipped,
                   insertedCount, lineIndex, query, users, queries>>

\* Another process removes the file between fs.existsSync and fs.readFileSync.
FsRemove ==
    /\ pc = "read" /\ fileState = "present"
    /\ fileState' = "absent"
    /\ UNCHANGED <<tk, ps, rp, filePath, fileText, pc, headers, records, skipped,
                   insertedCount, lineIndex, query, users, queries, outcome>>

\* fs.readFileSync, parseCSV, the check for no headers or no records, and the
\* initialisation of skipped, insertedCount and lineIndex.
ReadParse ==
    /\ pc = "read"
    /\ IF fileState # "present"
       THEN /\ pc' = "threw" /\ outcome' = Thrown(ReadError)
            /\ UNCHANGED <<headers, records, skipped, insertedCount, lineIndex>>
       ELSE LET r == parseCSV(fileText) IN
            /\ headers' = r.headers
            /\ records' = r.records
            /\ IF Len(r.headers) = 0 \/ Len(r.records) = 0
               THEN /\ pc' = "returned" /\ outcome' = ZeroSummary(Len(r.records))
                    /\ UNCHANGED <<skipped, insertedCount, lineIndex>>
               ELSE /\ pc' = "loop" /\ outcome' = outcome
                    /\ skipped' = <<>> /\ insertedCount' = 0 /\ lineIndex' = 1
    /\ UNCHANGED <<tk, ps, rp, filePath, fileState, fileText, query, users, queries>>

\* ValidateRow with pool.query called but not awaited: the loop goes on to the next
\* record while the INSERT is still in flight.
ValidateRowNoAwait ==
    /\ pc = "loop" /\ lineIndex <= Len(records)
    /\ LET rec == records[lineIndex] IN
       IF MissingName(rec)
       THEN /\ skipped' = Append(skipped, [lineIndex |-> lineIndex, reason |-> MissingNameReason])
            /\ UNCHANGED <<query, queries>>
       ELSE IF AgeOf(rec).nan
            THEN /\ skipped' = Append(skipped, [lineIndex |-> lineIndex,
                                                reason |-> InvalidAgeReason(rec)])
                 /\ UNCHANGED <<query, queries>>
            ELSE /\ query' = InsertParams(rec)
                 /\ queries' = Append(queries, [lineIndex |-> lineIndex,
                                                params |-> InsertParams(rec),
                                                result |-> "pending", message |-> <<>>])
                 /\ UNCHANGED skipped
    /\ lineIndex' = lineIndex + 1
    /\ UNCHANGED <<tk, ps, rp, filePath, fileState, fileText, pc, headers, records,
                   insertedCount, users, outcome>>

\* The loop's body for the next record, up to the await of pool.query.
ValidateRow ==
    /\ pc = "loop" /\ lineIndex <= Len(records)
    /\ LET rec == records[lineIndex] IN
       IF MissingName(rec)
       THEN /\ skipped' = Append(skipped, [lineIndex |-> lineIndex, reason |-> MissingNameReason])
            /\ lineIndex' = lineIndex + 1
            /\ UNCHANGED <<pc, query, queries>>
       ELSE IF AgeOf(rec).nan
            THEN /\ skipped' = Append(skipped, [lineIndex |-> lineIndex,
                                                reason |-> InvalidAgeReason(rec)])
                 /\ lineIndex' = lineIndex + 1
                 /\ UNCHANGED <<pc, query, queries>>
            ELSE /\ pc' = "await"
                 /\ query' = InsertParams(rec)
                 /\ queries' = Append(queries, [lineIndex |-> lineIndex,
                                                params |-> InsertParams(rec),
                                                result |-> "pending", message |-> <<>>])
                 /\ UNCHANGED <<skipped, lineIndex>>
    /\ UNCHANGED <<tk, ps, rp, filePath, fileState, fileText, headers, records,
                   insertedCount, users, outcome>>

\* pool.query resolves: the row is in the table.
InsertOk ==
    /\ pc = "await"
    /\ users' = Append(users, [name |-> query.name, age |-> query.age,
                               address |-> query.address,
                               additional_info |-> query.additional])
    /\ queries' = [queries EXCEPT ![Len(queries)].result = "ok"]
    /\ insertedCount' = insertedCount + 1
    /\ lineIndex' = lineIndex + 1
    /\ query' = NoQuery
    /\ pc' = "loop"
    /\ UNCHANGED <<tk, ps, rp, filePath, fileState, fileText, headers, records, skipped,
                   outcome>>

\* InsertFail with the catch block pushing nothing.
InsertFailUnrecorded(msg) ==
    /\ pc = "await"
    /\ queries' = [queries EXCEPT ![Len(queries)].result = "error",
                                  ![Len(queries)].message = msg]
    /\ lineIndex' = lineIndex + 1
    /\ query' = NoQuery
    /\ pc' = "loop"
    /\ UNCHANGED <<tk, ps, rp, filePath, fileState, fileText, headers, records, skipped,
                   insertedCount, users, outcome>>

\* InsertFail with no try/catch around the await: the rejection leaves uploadToDB.
InsertFailAborts(msg) ==
    /\ pc = "await"
    /\ queries' = [queries EXCEPT ![Len(queries)].result = "error",
                                  ![Len(queries)].message = msg]
    /\ query' = NoQuery
    /\ pc' = "threw"
    /\ outcome' = Thrown("pool.query rejected")
    /\ UNCHANGED <<tk, ps, rp, filePath, fileState, fileText, headers, records, skipped,
                   insertedCount, lineIndex, users>>

\* pool.query rejects with err.message = msg: the catch block, then lineIndex++.
InsertFail(msg) ==
    /\ pc = "await"
    /\ queries' = [queries EXCEPT ![Len(queries)].result = "error",
                                  ![Len(queries)].message = msg]
    /\ skipped' = Append(skipped, [lineIndex |-> lineIndex, reason |-> InsertErrorReason(msg)])
    /\ lineIndex' = lineIndex + 1
    /\ query' = NoQuery
    /\ pc' = "loop"
    /\ UNCHANGED <<tk, ps, rp, filePath, fileState, fileText, headers, records,
                   insertedCount, users, outcome>>

\* The loop is over: return { insertedCount, skipped, totalRows: records.length }.
Finish ==
    /\ pc = "loop" /\ lineIndex > Len(records)
    /\ pc' = "returned"
    /\ outcome' = [kind |-> "returned", error |-> "", insertedCount |-> insertedCount,
                   skipped |-> skipped, totalRows |-> Len(records)]
    /\ UNCHANGED <<tk, ps, rp, filePath, fileState, fileText, headers, records, skipped,
                   insertedCount, lineIndex, query, users, queries>>

Next ==
    \/ Begin
    \/ FsRemove
    \/ ReadParse
    \/ ValidateRow
    \/ InsertOk
    \/ \E msg \in Messages : InsertFail(msg)
    \/ Finish

Spec == Init /\ [][Next]_vars

-----------------------------------------------------------------------------
(* Claims about uploadToDB *)

IsValidationSkip(e) == e.reason.text \in {MissingNameReason.text, "Invalid age: "}
IsInsertErrorSkip(e) == e.reason.text = "DB insert error: "

SkipsOf(k) == {j \in 1..Len(skipped) : skipped[j].lineIndex = k}
QueriesOf(k) == {j \in 1..Len(queries) : queries[j].lineIndex = k}

\* C1: on every return path of uploadToDB (file missing, no headers or no records,
\* the full loop) and for any mix of validation and insert failures,
\* insertedCount + length(skipped) = totalRows, the number of parsed records.
C1_SummaryCount ==
    /\ outcome.kind = "returned" =>
           /\ outcome.insertedCount + Len(outcome.skipped) = outcome.totalRows
           /\ outcome.totalRows = Len(records)
    /\ pc = "loop" => insertedCount + Len(skipped) = lineIndex - 1

\* C1 witness: a run over three records returned with one row inserted, one skipped
\* by validation and one skipped by a failed INSERT.
C1_Witness ==
    /\ outcome.kind = "returned"
    /\ outcome.totalRows = 3
    /\ outcome.insertedCount = 1
    /\ \E a, b \in 1..Len(outcome.skipped) :
           IsValidationSkip(outcome.skipped[a]) /\ IsInsertErrorSkip(outcome.skipped[b])

C2_FailureStep ==
    (pc = "await" /\ queries' # queries /\ queries'[Len(queries')].result = "error") =>
        /\ skipped' = Append(skipped,
                             [lineIndex |-> lineIndex,
                              reason |-> [text |-> "DB insert error: ",
                                          arg |-> queries'[Len(queries')].message]])
        /\ queries[Len(queries)].lineIndex = lineIndex
        /\ insertedCount' = insertedCount
        /\ users' = users
        /\ lineIndex' = lineIndex + 1
        /\ pc' = "loop"
        /\ outcome'.kind # "threw"

C2_LaterRecordsProcessed ==
    /\ (\E j \in 1..Len(queries) : queries[j].result = "error") => pc # "threw"
    /\ pc = "threw" => queries = <<>>
    /\ (outcome.kind = "returned" /\ Len(records) > 0) =>
           \A k \in 1..Len(records) :
               IF MissingName(records[k]) \/ AgeOf(records[k]).nan
               THEN \E j \in SkipsOf(k) : IsValidationSkip(skipped[j])
               ELSE /\ Cardinality(QueriesOf(k)) = 1
                    /\ \A j \in QueriesOf(k) :
                           /\ queries[j].params = InsertParams(records[k])
                           /\ queries[j].result = "error" =>
                                  Cardinality(SkipsOf(k)) = 1

\* C2: a failed INSERT of a validated row is recorded as exactly one skipped entry
\* "DB insert error: <message>" for that row's ordinal, leaves insertedCount as it
\* was, and the run goes on: every later record is still validated and, if valid,
\* offered to the store; no failed row aborts the run.
C2_PerRowIsolation ==
    /\ [][C2_FailureStep]_vars
    /\ [](C2_LaterRecordsProcessed)

\* C2 witness: the INSERT of row 1 failed, row 2 was then inserted, and the run
\* returned with the one skipped entry of row 1.
C2_Witness ==
    /\ outcome.kind = "returned"
    /\ Len(queries) >= 2
    /\ queries[1].lineIndex = 1 /\ queries[1].result = "error"
    /\ queries[2].lineIndex = 2 /\ queries[2].result = "ok"
    /\ outcome.skipped = <<[lineIndex |-> 1,
                            reason |-> InsertErrorReason(queries[1].message)]>>
    /\ outcome.insertedCount >= 1

\* C3: the only error uploadToDB ever lets out is the configuration error for a
\* missing CSV_FILE_PATH; a file that is absent, unreadable or removed between the
\* existence check and the read ends in a returned summary.
C3_OnlyConfigErrorPropagates ==
    /\ outcome.kind = "threw" => outcome.error = ConfigError
    /\ pc = "threw" => ~filePath

\* C7 as amended: for every record that passes validation, `additional` is the
\* record without its top-level name, age and address keys; every other top-level
\* key (__extras too) is in it with its value.
C7_AdditionalOmitsAddress ==
    \A j \in 1..Len(queries) :
        LET rec == records[queries[j].lineIndex]
            additional == queries[j].params.additional
        IN  /\ DOMAIN additional.m = (DOMAIN rec.m) \ {kName, kAge, kAddress}
            /\ \A key \in DOMAIN additional.m : additional.m[key] = rec.m[key]

\* C7 witness: a record with a scalar address and a gender column was offered to
\* the store without address in `additional`, and one with __extras with it.
C7_Witness ==
    /\ \E j \in 1..Len(queries) :
           /\ GetProp(records[queries[j].lineIndex], kAddress) = Str(F_Pu)
           /\ kAddress \notin DOMAIN queries[j].params.additional.m
           /\ <<"g", "e", "n", "d", "e", "r">> \in DOMAIN queries[j].params.additional.m
    /\ \E j \in 1..Len(queries) : kExtras \in DOMAIN queries[j].params.additional.m

\* C7: for every record that passes validation, `additional` is the record with
\* only the top-level name and age keys removed: address is not removed, and every
\* other top-level key (a scalar address and __extras too) is in it unchanged.
C7_AdditionalKeepsAddress ==
    \A j \in 1..Len(queries) :
        LET rec == records[queries[j].lineIndex]
            additional == queries[j].params.additional
        IN  /\ DOMAIN additional.m = (DOMAIN rec.m) \ {kName, kAge}
            /\ \A key \in DOMAIN additional.m : additional.m[key] = rec.m[key]

\* A name field is present and not empty.
Present(v) == v.t # "u" /\ ~(v.t = "s" /\ v.s = <<>>)

\* s starts, after an optional sign, with a base-10 digit.
HasDecimalPrefix(s) ==
    LET u == IF s # <<>> /\ s[1] \in {"+", "-"} THEN Tail(s) ELSE s IN
    u # <<>> /\ \E d \in 1..10 : DigitChars[d] = u[1]

\* the records the loop is done with
Processed ==
    IF pc \in {"loop", "await", "returned"} /\ Len(records) > 0
    THEN 1..(IF pc = "await" THEN lineIndex ELSE lineIndex - 1)
    ELSE {}

\* C8: a record leads to an INSERT exactly when name.firstName and name.lastName
\* are present and not empty and age, trimmed, has a leading base-10 integer
\* prefix; otherwise there is no INSERT and exactly one skipped entry: "Missing
\* name.firstName or name.lastName" when a name field is missing (also when age is
\* invalid too), "Invalid age: <raw value>" when only age fails.
C8_ValidationOutcome ==
    \A k \in Processed :
        LET rec == records[k]
            namesOk == /\ Present(GetPath(rec, <<kName, kFirstName>>))
                       /\ Present(GetPath(rec, <<kName, kLastName>>))
            raw == ToStr(Coalesce(GetProp(rec, kAge), Str(<<>>)))
            ageOk == HasDecimalPrefix(Trim(raw))
        IN  /\ (QueriesOf(k) # {}) <=> (namesOk /\ ageOk)
            /\ ~namesOk =>
                   /\ Cardinality(SkipsOf(k)) = 1
                   /\ \A j \in SkipsOf(k) : skipped[j].reason = MissingNameReason
            /\ (namesOk /\ ~ageOk) =>
                   /\ Cardinality(SkipsOf(k)) = 1
                   /\ \A j \in SkipsOf(k) :
                          skipped[j].reason = [text |-> "Invalid age: ",
                                               arg |-> <<DQ>> \o raw \o <<DQ>>]

\* the ordinals of a list of entries, each with a lineIndex, strictly increase
Increasing(es) == \A i, j \in 1..Len(es) : i < j => es[i].lineIndex < es[j].lineIndex

\* record k is done with: skipped by validation, or its INSERT has completed
Completed(k) ==
    \/ \E j \in SkipsOf(k) : TRUE
    \/ \E j \in QueriesOf(k) : queries[j].result \in {"ok", "error"}

\* at most one INSERT in flight, and only while the loop waits for it; the INSERTs
\* issued and the skipped entries carry increasing ordinals of parsed records
C11_OrdinalOrder ==
    /\ \A j \in 1..Len(queries) :
           queries[j].result = "pending" => (j = Len(queries) /\ pc = "await")
    /\ pc = "await" =>
           /\ queries # <<>>
           /\ queries[Len(queries)].result = "pending"
           /\ queries[Len(queries)].lineIndex = lineIndex
    /\ Increasing(queries) /\ Increasing(skipped)
    /\ \A j \in 1..Len(queries) : queries[j].lineIndex \in 1..Len(records)
    /\ \A j \in 1..Len(skipped) : skipped[j].lineIndex \in 1..Len(records)
    /\ outcome.kind = "returned" =>
           /\ Increasing(outcome.skipped)
           /\ \A j \in 1..Len(outcome.skipped) :
                  outcome.skipped[j].lineIndex \in 1..outcome.totalRows

\* a step that validates a record (it adds a skipped entry or issues an INSERT
\* while the loop is running): the record is the one after those done with, every
\* earlier record is completed, and no INSERT is in flight
C11_ValidationStep ==
    (pc = "loop" /\ (Len(skipped') > Len(skipped) \/ Len(queries') > Len(queries))) =>
        /\ \A j \in 1..Len(queries) : queries[j].result # "pending"
        /\ \A k \in 1..(lineIndex - 1) : Completed(k)
        /\ \A k \in lineIndex..Len(records) : ~Completed(k) /\ QueriesOf(k) = {}
        /\ \/ /\ Len(skipped') = Len(skipped) + 1 /\ queries' = queries
              /\ skipped'[Len(skipped')].lineIndex = lineIndex
              /\ lineIndex' = lineIndex + 1
           \/ /\ Len(queries') = Len(queries) + 1 /\ skipped' = skipped
              /\ queries'[Len(queries')].lineIndex = lineIndex
              /\ queries'[Len(queries')].result = "pending"
              /\ lineIndex' = lineIndex /\ pc' = "await"

\* C11: within one run records are processed in document order under 1-based
\* ordinals: at most one INSERT of the run is in flight at any time, the INSERT for
\* record k has completed (resolved or rejected) before record k+1 is validated,
\* INSERTs are issued in increasing ordinal order, and the skipped list holds
\* strictly increasing ordinals, each between 1 and totalRows.
C11_SequentialOrder ==
    /\ [][C11_ValidationStep]_vars
    /\ [](C11_OrdinalOrder)

\* C11 witness: a run of three records returned after the INSERT of row 1 failed,
\* row 2 was skipped by validation and row 3 was inserted.
C11_Witness ==
    /\ outcome.kind = "returned" /\ outcome.totalRows = 3
    /\ Len(queries) = 2
    /\ queries[1].lineIndex = 1 /\ queries[1].result = "error"
    /\ queries[2].lineIndex = 3 /\ queries[2].result = "ok"
    /\ Len(outcome.skipped) = 2
    /\ outcome.skipped[1].lineIndex = 1 /\ IsInsertErrorSkip(outcome.skipped[1])
    /\ outcome.skipped[2].lineIndex = 2 /\ IsValidationSkip(outcome.skipped[2])

-----------------------------------------------------------------------------
(* Math.round((val / total) * 100) in IEEE 754 double precision *)

\* A double's 53-bit significand is held as five limbs <<top, d1, d2, d3, d4>> of
\* 13 bits each below the top one: the integer top * 2^52 + d1 * 2^39 + d2 * 2^26
\* + d3 * 2^13 + d4.
LimbBase == 2 ^ 13

Pow2(e) == 2 ^ e

\* the least e >= 0 with v * 2^e >= t, for 0 < v <= t
RECURSIVE ShiftFor(_, _, _)
ShiftFor(v, t, e) == IF v * Pow2(e) >= t THEN e ELSE ShiftFor(v, t, e + 1)

\* limbs + 1, the carry running up
LimbsInc(l) ==
    LET c4 == IF l[5] + 1 = LimbBase THEN 1 ELSE 0
        c3 == IF l[4] + c4 = LimbBase THEN 1 ELSE 0
        c2 == IF l[3] + c3 = LimbBase THEN 1 ELSE 0
        c1 == IF l[2] + c2 = LimbBase THEN 1 ELSE 0
    IN  <<l[1] + c1, (l[2] + c2) % LimbBase, (l[3] + c3) % LimbBase,
          (l[4] + c4) % LimbBase, (l[5] + 1) % LimbBase>>

\* val / total for 0 < v <= t: the quotient rounded to nearest, ties to even, as
\* [e, limbs] standing for limbs * 2^(-52 - e), with top = 1.
FloatDiv(v, t) ==
    LET e == ShiftFor(v, t, 0)
        r0 == v * Pow2(e) - t
        d1 == (r0 * LimbBase) \div t
        r1 == (r0 * LimbBase) % t
        d2 == (r1 * LimbBase) \div t
        r2 == (r1 * LimbBase) % t
        d3 == (r2 * LimbBase) \div t
        r3 == (r2 * LimbBase) % t
        d4 == (r3 * LimbBase) \div t
        r4 == (r3 * LimbBase) % t
        down == <<1, d1, d2, d3, d4>>
        up == 2 * r4 > t \/ (2 * r4 = t /\ d4 % 2 = 1)
    IN  [e |-> e, limbs |-> IF up THEN LimbsInc(down) ELSE down]

\* x * 100 for a double x = [e, limbs]: the exact product, then rounded to 53 bits
\* (nearest, ties to even); the result stands for limbs * 2^(-52 - e) again, its top
\* limb now between 100 and 200.
FloatTimes100(x) ==
    LET l == x.limbs
        x4 == l[5] * 100
        x3 == l[4] * 100 + (x4 \div LimbBase)
        x2 == l[3] * 100 + (x3 \div LimbBase)
        x1 == l[2] * 100 + (x2 \div LimbBase)
        top == l[1] * 100 + (x1 \div LimbBase)
        p == <<top, x1 % LimbBase, x2 % LimbBase, x3 % LimbBase, x4 % LimbBase>>
        \* the product has 52 + 7 or 52 + 8 bits: 6 or 7 low bits are rounded away
        s == IF top < 128 THEN 6 ELSE 7
        rem == p[5] % Pow2(s)
        kept == p[5] - rem
        odd == (p[5] \div Pow2(s)) % 2 = 1
        up == 2 * rem > Pow2(s) \/ (2 * rem = Pow2(s) /\ odd)
        low == IF up THEN kept + Pow2(s) ELSE kept
        c4 == low \div LimbBase
        c3 == (p[4] + c4) \div LimbBase
        c2 == (p[3] + c3) \div LimbBase
        c1 == (p[2] + c2) \div LimbBase
    IN  [e |-> x.e,
         limbs |-> <<p[1] + c1, (p[2] + c2) % LimbBase, (p[3] + c3) % LimbBase,
                     (p[4] + c4) % LimbBase, low % LimbBase>>]

\* Math.round(x) for a double x >= 0 = [e, limbs]: the integer part, plus one when
\* the fraction is a half or more.
MathRound(x) ==
    LET d == Pow2(x.e)
        top == x.limbs[1]
        halfOrMore == IF d = 1 THEN 2 * x.limbs[2] >= LimbBase
                      ELSE 2 * (top % d) >= d
    IN  (top \div d) + (IF halfOrMore THEN 1 ELSE 0)

\* Math.round((val / total) * 100) computed in exact arithmetic (no double rounding
\* of the quotient or of the product).
PercentExact(val, total) == (200 * val + total) \div (2 * total)

\* Math.round((val / total) * 100), 0 <= val <= total, total > 0
Percent(val, total) ==
    IF val = 0 THEN 0 ELSE MathRound(FloatTimes100(FloatDiv(val, total)))

-----------------------------------------------------------------------------
(* Specification SpecReport: printAgeDistribution over a stored table *)

MaxMixed == 2

\* ages on both sides of every bucket edge, zero and a negative one
AgeVals == {0 - 3, 0, 20, 21, 40, 41, 60, 61}

UserRow(age) ==
    [name |-> <<>>, age |-> age, address |-> EmptyObj, additional_info |-> EmptyObj]

Repeat(x, n) == [k \in 1..n |-> x]

\* the table users: every table of up to nm rows over AgeVals, and the tables of
\* up to ns rows of which some are aged 20 and the others 61
StoredTables(nm, ns) ==
    {[k \in 1..Len(q) |-> UserRow(q[k])] : q \in SeqsUpTo(AgeVals, nm)}
    \cup {Repeat(UserRow(20), n1) \o Repeat(UserRow(61), n2) :
            n1 \in 0..ns, n2 \in 0..ns}

InitReport ==
    /\ tk = IdleTk /\ ps = IdlePs
    /\ filePath = FALSE /\ fileState = "absent" /\ fileText = <<>>
    /\ pc = "idle" /\ headers = <<>> /\ records = <<>> /\ skipped = <<>>
    /\ insertedCount = 0 /\ lineIndex = 1 /\ query = NoQuery
    /\ queries = <<>> /\ outcome = NoOutcome
    /\ users \in {u \in StoredTables(MaxMixed, MaxStored) : Len(u) <= MaxStored}
    /\ rp = [IdleRp EXCEPT !.pc = "start"]

\* the branch of the if / else if chain an age takes; "none" if it takes none
GroupOf(age) ==
    IF age <= 20 THEN "<20"
    ELSE IF age > 20 /\ age <= 40 THEN "20-40"
    ELSE IF age > 40 /\ age <= 60 THEN "40-60"
    ELSE IF age > 60 THEN ">60"
    ELSE "none"

\* the increments the loop makes over rows[lo..hi], half by half
RECURSIVE CountRange(_, _, _)
CountRange(rows, lo, hi) ==
    IF lo > hi THEN [g \in Labels |-> 0]
    ELSE IF lo = hi THEN [g \in Labels |-> IF GroupOf(rows[lo]) = g THEN 1 ELSE 0]
    ELSE LET mid == (lo + hi) \div 2
             a == CountRange(rows, lo, mid)
             b == CountRange(rows, mid + 1, hi)
         IN  [g \in Labels |-> a[g] + b[g]]

\* for (const { age } of res.rows) { ... groups[...]++ }
CountGroups(rows) == CountRange(rows, 1, Len(rows))

\* SELECT age FROM users; total = res.rows.length; the return when total is 0
RpQuery ==
    /\ rp.pc = "start"
    /\ rp' = [rp EXCEPT !.rows = [k \in 1..Len(users) |-> users[k].age],
                        !.total = Len(users),
                        !.pc = IF Len(users) = 0 THEN "done" ELSE "count"]
    /\ UNCHANGED <<tk, ps, upVars>>

RpCount ==
    /\ rp.pc = "count"
    /\ rp' = [rp EXCEPT !.groups = CountGroups(rp.rows), !.pc = "percents"]
    /\ UNCHANGED <<tk, ps, upVars>>

\* percents[key] = Math.round((val / total) * 100), then the table is printed
RpPrint ==
    /\ rp.pc = "percents"
    /\ rp' = [rp EXCEPT !.percents = [g \in Labels |-> Percent(rp.groups[g], rp.total)],
                        !.printed = TRUE,
                        !.pc = "done"]
    /\ UNCHANGED <<tk, ps, upVars>>

NextReport == RpQuery \/ RpCount \/ RpPrint

SpecReport == InitReport /\ [][NextReport]_vars

\* the ages of the table that lie in the bucket the claim gives the label
InBucket(age, g) ==
    CASE g = "<20" -> age <= 20
      [] g = "20-40" -> 20 < age /\ age <= 40
      [] g = "40-60" -> 40 < age /\ age <= 60
      [] g = ">60" -> age > 60

\* C10: for every non-empty set of stored integer ages (zero and negative too) each
\* age is counted in exactly one of the four buckets, the counts sum to the number
\* of ages, and each percentage is bucketCount / total * 100 rounded half-up, an
\* integer in 0..100; with no ages stored no distribution is produced.
C10_AgeDistribution ==
    rp.pc = "done" =>
        /\ Len(users) = 0 => ~rp.printed
        /\ Len(users) > 0 =>
               /\ rp.printed
               /\ \A g \in Labels :
                      rp.groups[g] =
                          Cardinality({k \in 1..Len(users) : InBucket(users[k].age, g)})
               /\ \A k \in 1..Len(users) :
                      Cardinality({g \in Labels : InBucket(users[k].age, g)}) = 1
               /\ rp.groups["<20"] + rp.groups["20-40"] + rp.groups["40-60"]
                      + rp.groups[">60"] = Len(users)
               /\ \A g \in Labels :
                      /\ rp.percents[g] \in 0..100
                      /\ rp.percents[g] = PercentExact(rp.groups[g], Len(users))

====
